---- MODULE Spec2Model ----
(***************************************************************************)
(* Capture source management and plate recognition of the parking client.  *)
(*                                                                         *)
(* Four React components acquire a camera stream:                          *)
(*   "CameraSwitcher"     client/src/components/CameraSwitcher.tsx         *)
(*   "SmartCameraCapture" unnamed/part_001                                 *)
(*   "CameraCapture"      unnamed/part_002                                 *)
(*   "CameraCaptureTsx"   client/src/components/CameraCapture.tsx          *)
(* One of them is mounted by the application; Init chooses which.         *)
(*                                                                         *)
(* A step of the model is one JavaScript task: a UI event handler up to    *)
(* its first await, or the settling of one promise together with the       *)
(* continuation it resumes up to the next await.                           *)
(*                                                                         *)
(* Spec is the camera of one component. PipelineSpec is the list of        *)
(* captured images of the three capture components, ShutterSpec the        *)
(* shutter of CameraSwitcher beside its camera, ExtractSpec the function   *)
(* extractLicensePlate on every short text.  LiveSpec is PipelineSpec      *)
(* with the progress of the engine, DetSpec PipelineSpec with a            *)
(* deterministic engine, RankSpec the ranking of any device list, and      *)
(* ServerSpec the check-in and check-out handlers of server.js.            *)
(***************************************************************************)
EXTENDS Integers, Sequences, FiniteSets, Bags, TLC

\* ------------------------------------------------------------------ bounds
\* number of start-camera invocations in one run
MaxStarts == 2
\* number of getDevices invocations in one run (the first is the mount effect)
MaxGetDevices == 2

\* ------------------------------------------------------------- components
Switcher == "CameraSwitcher"
Smart == "SmartCameraCapture"
Capture == "CameraCapture"
CaptureTsx == "CameraCaptureTsx"
Components == {Switcher, Smart, Capture, CaptureTsx}

\* -------------------------------------------------------------- platform
\* DOMException names getUserMedia rejects with; AbortError stands for
\* every name the components do not test for.
ErrorNames ==
  {"NotAllowedError", "NotFoundError", "NotSupportedError",
   "NotReadableError", "OverconstrainedError", "AbortError"}
NoError == "none"

\* the video input devices enumerateDevices reports, in enumeration order
NoDevice == ""
VideoDevices == <<"back", "front">>
DeviceIds == {VideoDevices[k] : k \in 1..Len(VideoDevices)}
\* keywords carried by the label of each device, transliterated:
\* "rear" (haimen), "triple" (toripuru), "front" (zenmen), "dualwide"
\* (dyuaru-koukaku), "ultrawide" (chou-koukaku), "tele" (bouen), "main"
\* (mein).  "plain" is a device whose label carries none of them, as the
\* label the code makes up from the deviceId when the label is empty.
LabelOf(d) ==
  IF d = "back" THEN {"rear", "triple"}
  ELSE IF d = "dual" THEN {"rear", "dualwide"}
  ELSE IF d = "wide" THEN {"rear"}
  ELSE IF d = "ultra" THEN {"rear", "ultrawide"}
  ELSE IF d = "tele" THEN {"rear", "tele"}
  ELSE IF d = "main" THEN {"main"}
  ELSE IF d = "plain" THEN {}
  ELSE {"front"}

\* the constraint sets passed to getUserMedia
\*   exact_hi    deviceId exact + ideal 1920x1080
\*   exact_basic deviceId exact only
\*   probe       width 640, height 480 (permission probe)
\*   env         facingMode environment + resolution
\*   user        facingMode user + resolution
\*   any         video: true
Requests == {"exact_hi", "exact_basic", "probe", "env", "user", "any"}

\* ------------------------------------------------------------------ state
VARIABLES
  comp,             \* the component under consideration
  mounted,          \* the component is rendered by the application
  cameraApi,        \* "ok" | "unsupported" | "insecure" (part_002 pre-checks)
  streams,          \* every MediaStream handed out: [dev, live]
  currentStream,    \* currentStream state / streamRef.current; 0 is null
  srcObject,        \* videoRef.current.srcObject; 0 is null or no element
  onloadedmetadata, \* videoRef.current.onloadedmetadata is assigned
  metaLoaded,       \* loadedmetadata has fired for the current srcObject
  playPending,      \* a play() promise of the element is unsettled
  isStreaming,      \* isStreaming state
  cameraError,      \* cameraError state of SmartCameraCapture
  alertMsg,         \* text of the last alert() shown
  logs,             \* the newest error line of logs (CameraSwitcher)
  devices,          \* devices state of CameraSwitcher
  selectedDeviceId, \* selectedDeviceId state of CameraSwitcher
  calls,            \* the start-camera invocations in progress
  started,          \* number of start-camera invocations made
  lastCall,         \* the start-camera invocation that returned last
  gdStarted,        \* number of getDevices invocations made
  gd,               \* the getDevices invocations of CameraSwitcher:
                    \* [pc, probe], probe the state of its throwaway stream
  capturedImages,   \* capturedImages state: the list of CapturedImage
  ocr,              \* the processImage invocations in progress
  now,              \* the value Date.now() returns
  isSubmitting,     \* isSubmitting state
  submission,       \* the submitParkingRecord invocation in progress
  message,          \* message state: its type, "none" is null
  selectedSpot,     \* selectedSpot state
  capturedPhotos,   \* capturedPhotos state of CameraSwitcher
  isProcessing,     \* isProcessing state of CameraSwitcher
  ocrWorker,        \* ocrWorker state of CameraSwitcher and its initialisation
  cap,              \* the capturePhoto invocation of CameraSwitcher
  text,             \* a raw text handed to extractLicensePlate
  extracted,        \* what extractLicensePlate returned for it
  enumerated,       \* a device list as enumerateDevices reports it
  sorted,           \* sortedDevices as rendered for that list
  engine,           \* what a deterministic engine answers for each file
  is_occupied,      \* parking_spots.is_occupied by spot_number
  parking_records,  \* the rows of parking_records, the id is the index
  requests          \* the requests the server received, with their state

\* the state of the recognition pipeline
imgVars ==
  <<capturedImages, ocr, now, isSubmitting, submission, message,
    selectedSpot, capturedPhotos, isProcessing, ocrWorker, cap, text,
    extracted>>

\* the state of the device ranking, the engine and the server
auxVars ==
  <<enumerated, sorted, engine, is_occupied, parking_records, requests>>

vars ==
  <<comp, mounted, cameraApi, streams, currentStream, srcObject,
    onloadedmetadata, metaLoaded, playPending, isStreaming, cameraError, alertMsg, logs,
    devices, selectedDeviceId, calls, started, lastCall, gdStarted, gd,
    imgVars, auxVars>>

StartIds == 1..MaxStarts
GdIds == 1..MaxGetDevices

\* an invocation slot not in use; the fields of an invocation:
\*   pc      "idle" | "enum" | "gum" | "meta" | "play" | "done"
\*   req     the request of the pending getUserMedia call
\*   target  deviceId || selectedDeviceId as the closure sees it
\*   hist    the getUserMedia calls issued: <<request, "ok" | "fail">>
\*   err     the error the outer catch block holds: its name
\*   stream  the local variable stream
\*   prev    currentStream as the invocation found it
IdleCall ==
  [pc |-> "idle", req |-> "none", target |-> NoDevice, hist |-> <<>>,
   err |-> NoError, stream |-> 0, prev |-> 0]

IdleGd == [pc |-> "idle", probe |-> "none"]

\* ---------------------------------------------------------------- helpers
\* videoRef.current is non-null: CameraSwitcher always renders <video>,
\* the other components render it only when isStreaming
VideoMounted ==
  mounted /\ (comp = Switcher \/ isStreaming)

IsLive(s) == s # 0 /\ streams[s].live

\* variant: the tracks of the stream are left running
StopTracksSkipped(ss, s) == ss

\* stream.getTracks().forEach(track => track.stop())
StopTracks(ss, s) ==
  IF s = 0 THEN ss ELSE [ss EXCEPT ![s].live = FALSE]

LiveStreams == {s \in 1..Len(streams) : streams[s].live}

\* ---------------------------------------------------------- error messages
\* the text shown for an acquisition error, as tags:
\*   generic      "kamera ni akusesu dekimasen deshita"
\*   denied / notfound / unsupported / busy / constraints: the specific texts
ErrorMessage(c, name) ==
  CASE c = Smart ->
         IF name = "NotAllowedError" THEN "denied"
         ELSE IF name = "NotFoundError" THEN "notfound"
         ELSE IF name = "NotSupportedError" THEN "unsupported"
         ELSE IF name = "NotReadableError" THEN "busy"
         ELSE IF name = "OverconstrainedError" THEN "constraints"
         ELSE "generic"
    [] c = Capture ->
         IF name = "NotAllowedError" THEN "denied"
         ELSE IF name = "NotFoundError" THEN "notfound"
         ELSE IF name = "NotSupportedError" THEN "unsupported"
         ELSE IF name = "NotReadableError" THEN "busy"
         ELSE "generic"
    [] c = CaptureTsx -> "generic"
    [] OTHER -> name

\* --------------------------------------------------------- fallback chain
\* variant: CameraSwitcher retries with the basic constraints after every
\* error of the first call
AfterGumRetryAnyError(c, req, res) ==
  CASE c = Switcher /\ req = "exact_hi" ->
         IF res = "ok" THEN "bind" ELSE "exact_basic"
    [] c = Switcher /\ req = "exact_basic" ->
         IF res = "ok" THEN "bind" ELSE "fail"
    [] c = Smart /\ req = "probe" ->
         IF res = "ok" THEN "env" ELSE "user"
    [] c \in {Smart, Capture} /\ req = "env" ->
         IF res = "ok" THEN "bind" ELSE "user"
    [] c \in {Smart, Capture} /\ req = "user" ->
         IF res = "ok" THEN "bind" ELSE "any"
    [] c \in {Smart, Capture} /\ req = "any" ->
         IF res = "ok" THEN "bind" ELSE "fail"
    [] c = CaptureTsx /\ req = "env" ->
         IF res = "ok" THEN "bind" ELSE "fail"
    [] OTHER -> "fail"

\* variant: the last attempt of the facing-mode chain is repeated when it
\* fails
AfterGumRetryLast(c, req, res) ==
  CASE c = Switcher /\ req = "exact_hi" ->
         IF res = "ok" THEN "bind"
         ELSE IF res = "OverconstrainedError" THEN "exact_basic"
         ELSE "fail"
    [] c = Switcher /\ req = "exact_basic" ->
         IF res = "ok" THEN "bind" ELSE "fail"
    [] c = Smart /\ req = "probe" ->
         IF res = "ok" THEN "env" ELSE "user"
    [] c \in {Smart, Capture} /\ req = "env" ->
         IF res = "ok" THEN "bind" ELSE "user"
    [] c \in {Smart, Capture} /\ req = "user" ->
         IF res = "ok" THEN "bind" ELSE "any"
    [] c \in {Smart, Capture} /\ req = "any" ->
         IF res = "ok" THEN "bind" ELSE "any"
    [] c = CaptureTsx /\ req = "env" ->
         IF res = "ok" THEN "bind" ELSE "fail"
    [] OTHER -> "fail"

\* variant: the user-facing attempt is left out of the facing-mode chain
AfterGumSkipUser(c, req, res) ==
  CASE c = Switcher /\ req = "exact_hi" ->
         IF res = "ok" THEN "bind"
         ELSE IF res = "OverconstrainedError" THEN "exact_basic"
         ELSE "fail"
    [] c = Switcher /\ req = "exact_basic" ->
         IF res = "ok" THEN "bind" ELSE "fail"
    [] c = Smart /\ req = "probe" ->
         IF res = "ok" THEN "env" ELSE "user"
    [] c \in {Smart, Capture} /\ req = "env" ->
         IF res = "ok" THEN "bind" ELSE "any"
    [] c \in {Smart, Capture} /\ req = "user" ->
         IF res = "ok" THEN "bind" ELSE "any"
    [] c \in {Smart, Capture} /\ req = "any" ->
         IF res = "ok" THEN "bind" ELSE "fail"
    [] c = CaptureTsx /\ req = "env" ->
         IF res = "ok" THEN "bind" ELSE "fail"
    [] OTHER -> "fail"

\* what the continuation of a settled getUserMedia call does next:
\* a further request, "bind" the stream, or "fail" into the outer catch
AfterGum(c, req, res) ==
  CASE c = Switcher /\ req = "exact_hi" ->
         IF res = "ok" THEN "bind"
         ELSE IF res = "OverconstrainedError" THEN "exact_basic"
         ELSE "fail"
    [] c = Switcher /\ req = "exact_basic" ->
         IF res = "ok" THEN "bind" ELSE "fail"
    [] c = Smart /\ req = "probe" ->
         IF res = "ok" THEN "env" ELSE "user"
    [] c \in {Smart, Capture} /\ req = "env" ->
         IF res = "ok" THEN "bind" ELSE "user"
    [] c \in {Smart, Capture} /\ req = "user" ->
         IF res = "ok" THEN "bind" ELSE "any"
    [] c \in {Smart, Capture} /\ req = "any" ->
         IF res = "ok" THEN "bind" ELSE "fail"
    [] c = CaptureTsx /\ req = "env" ->
         IF res = "ok" THEN "bind" ELSE "fail"
    [] OTHER -> "fail"

\* variant: the fallback of CameraSwitcher leaves isStreaming to the
\* loadedmetadata handler, which it does not assign
StreamingOnBindTsxOnly(c, req) == c = CaptureTsx

\* the success continuation calls setIsStreaming(true) itself: the fallback
\* of CameraSwitcher and CameraCapture.tsx
StreamingOnBind(c, req) ==
  (c = Switcher /\ req = "exact_basic") \/ c = CaptureTsx

\* the success continuation assigns videoRef.current.onloadedmetadata
HandlerOnBind(c, req) ==
  (c = Switcher /\ req = "exact_hi") \/ c = Capture

\* the request a start-camera invocation issues first
FirstRequest(c) ==
  CASE c = Switcher -> "exact_hi"
    [] c = Smart -> "probe"
    [] OTHER -> "env"

\* the least invocation slot not used yet
NextStart == CHOOSE i \in StartIds :
  calls[i].pc = "idle" /\ \A j \in StartIds : calls[j].pc = "idle" => i <= j
NextGd == CHOOSE g \in GdIds :
  gd[g].pc = "idle" /\ \A h \in GdIds : gd[h].pc = "idle" => g <= h

\* addLog of an error line.  Of the list only its newest error line is
\* kept, as the kind of the line (its text also carries a timestamp and the
\* error's name and message); a state setter of an unmounted component does
\* nothing
AddLog(l, kind) ==
  IF mounted THEN kind ELSE l

\* assigning srcObject runs the media element load algorithm, which rejects
\* a pending play() promise; the rejection handlers of the components:
\*   CameraSwitcher logs, part_002 alerts, part_001 falls into its catch
AbortLogs(l) ==
  IF playPending /\ comp = Switcher /\ mounted
    THEN AddLog(l, "playError") ELSE l
AbortAlert(a) ==
  IF playPending /\ comp = Capture THEN "play_failed" ELSE a
AbortCalls(cs) ==
  [j \in StartIds |-> IF cs[j].pc = "play" THEN IdleCall ELSE cs[j]]
AbortCameraError(e) ==
  IF mounted /\ \E j \in StartIds : calls[j].pc = "play"
    THEN ErrorMessage(Smart, "AbortError") ELSE e

\* ---------------------------------------------------------------- actions
\* A start-camera handler runs up to its first await.
\*   CameraSwitcher: d = NoDevice is the start button (startCamera()),
\*   d # NoDevice a quick-switch button (setSelectedDeviceId(d);
\*   startCamera(d)).  The other components only have the start button,
\*   rendered while isStreaming is false.
StartCamera(d) ==
  /\ UNCHANGED <<imgVars, auxVars>>
  /\ mounted
  /\ started < MaxStarts
  /\ started' = started + 1
  /\ IF comp = Switcher
       THEN IF d = NoDevice
              THEN ~isStreaming /\ selectedDeviceId # NoDevice
              ELSE d \in devices
       ELSE d = NoDevice /\ ~isStreaming
  /\ LET i == NextStart
         target == IF d # NoDevice THEN d ELSE selectedDeviceId
         issued == [IdleCall EXCEPT !.pc = "gum", !.req = FirstRequest(comp),
                                    !.prev = currentStream]
         returned == [IdleCall EXCEPT !.pc = "done"]
     IN
       CASE comp = Switcher ->
              /\ selectedDeviceId' = target
              /\ IF target = NoDevice
                   THEN /\ logs' = AddLog(logs, "noCamera")
                        /\ lastCall' = returned
                        /\ UNCHANGED <<streams, currentStream, calls>>
                   ELSE /\ streams' = StopTracks(streams, currentStream)
                        /\ currentStream' = 0
                        /\ calls' = [calls EXCEPT ![i] =
                                       [issued EXCEPT !.target = target]]
                        /\ UNCHANGED <<logs, lastCall>>
              /\ UNCHANGED <<cameraError, alertMsg>>
         [] comp = Smart ->
              /\ cameraError' = NoError
              /\ calls' = [calls EXCEPT ![i] = issued]
              /\ UNCHANGED <<streams, currentStream, selectedDeviceId, logs,
                             alertMsg, lastCall>>
         [] comp = Capture ->
              /\ IF cameraApi = "unsupported"
                   THEN /\ alertMsg' = "unsupported_browser"
                        /\ lastCall' = returned
                        /\ UNCHANGED calls
                   ELSE IF cameraApi = "insecure"
                   THEN /\ alertMsg' = "https_required"
                        /\ lastCall' = returned
                        /\ UNCHANGED calls
                   ELSE /\ calls' = [calls EXCEPT ![i] =
                                       [IdleCall EXCEPT !.pc = "enum",
                                                        !.prev = currentStream]]
                        /\ UNCHANGED <<alertMsg, lastCall>>
              /\ UNCHANGED <<streams, currentStream, selectedDeviceId, logs,
                             cameraError>>
         [] OTHER ->
              /\ calls' = [calls EXCEPT ![i] = issued]
              /\ UNCHANGED <<streams, currentStream, selectedDeviceId, logs,
                             cameraError, alertMsg, lastCall>>
  /\ UNCHANGED <<comp, mounted, cameraApi, srcObject, onloadedmetadata,
                 metaLoaded, playPending, isStreaming, devices, gdStarted, gd>>

\* part_002: the enumerateDevices() call made for logging settles (its
\* result and its failure are both ignored); the first request is issued
EnumSettle(i) ==
  /\ UNCHANGED <<imgVars, auxVars>>
  /\ calls[i].pc = "enum"
  /\ calls' = [calls EXCEPT ![i].pc = "gum", ![i].req = FirstRequest(comp)]
  /\ UNCHANGED <<comp, mounted, cameraApi, streams, currentStream, srcObject,
                 onloadedmetadata, metaLoaded, playPending, isStreaming,
                 cameraError, alertMsg, logs, devices, selectedDeviceId,
                 started, lastCall, gdStarted, gd>>

\* the pending getUserMedia call of invocation i settles with res ("ok" or
\* the name of the error it rejects with) and the continuation runs up to
\* its next await
GumSettle(i, res) ==
  /\ UNCHANGED <<imgVars, auxVars>>
  /\ calls[i].pc = "gum"
  /\ LET c == calls[i]
         ok == res = "ok"
         nxt == AfterGum(comp, c.req, res)
         sid == Len(streams) + 1
         \* the MediaStream it resolves with; part_001 stops the tracks of
         \* its permission probe at once
         acquired ==
           Append(streams,
                  [dev |-> c.target,
                   live |-> ~(comp = Smart /\ c.req = "probe")])
         c1 == [c EXCEPT !.hist = Append(@, <<c.req, IF ok THEN "ok" ELSE "fail">>),
                         \* the errors of the inner catch blocks go out of
                         \* scope; the outer catch keeps the one it caught
                         !.err = IF ~ok /\ (nxt = "fail" \/ comp = Switcher)
                                      /\ @ = NoError
                                   THEN res ELSE @,
                         !.stream = IF ok THEN sid ELSE @]
         done == [c1 EXCEPT !.pc = "done", !.req = "none"]
     IN
       /\ streams' = IF ok THEN acquired ELSE streams
       /\ CASE nxt \in Requests ->
                 \* a further attempt of the chain is issued
                 /\ calls' = [calls EXCEPT ![i] = [c1 EXCEPT !.req = nxt]]
                 /\ UNCHANGED lastCall
                 /\ logs' = IF comp = Switcher
                              THEN AddLog(logs, "startError") ELSE logs
                 /\ UNCHANGED <<currentStream, srcObject, onloadedmetadata,
                                metaLoaded, playPending, isStreaming,
                                cameraError, alertMsg>>
            [] nxt = "bind" /\ ~VideoMounted ->
                 \* if (videoRef.current) is false: nothing is done with
                 \* the stream
                 /\ calls' = [calls EXCEPT ![i] = IdleCall]
                 /\ lastCall' = done
                 /\ UNCHANGED <<currentStream, srcObject, onloadedmetadata,
                                metaLoaded, playPending, isStreaming,
                                cameraError, alertMsg, logs>>
            [] nxt = "bind" /\ VideoMounted ->
                 /\ srcObject' = sid
                 /\ currentStream' = sid
                 /\ metaLoaded' = FALSE
                 /\ playPending' = FALSE
                 /\ logs' = AbortLogs(logs)
                 /\ alertMsg' = AbortAlert(alertMsg)
                 /\ cameraError' = AbortCameraError(cameraError)
                 /\ onloadedmetadata' =
                      (onloadedmetadata \/ HandlerOnBind(comp, c.req))
                 /\ isStreaming' =
                      (isStreaming \/ StreamingOnBind(comp, c.req))
                 /\ calls' = [AbortCalls(calls) EXCEPT ![i] =
                                IF comp = Smart
                                  THEN [c1 EXCEPT !.pc = "meta", !.req = "none"]
                                  ELSE IdleCall]
                 /\ lastCall' = IF comp = Smart THEN lastCall ELSE done
            [] OTHER ->
                 \* the chain is exhausted: the outer catch reports
                 /\ calls' = [calls EXCEPT ![i] = IdleCall]
                 /\ lastCall' = done
                 /\ logs' = IF comp = Switcher
                              THEN AddLog(logs,
                                          IF c.req = "exact_hi"
                                            THEN "startError"
                                            ELSE "fallbackFailed")
                              ELSE logs
                 /\ cameraError' = IF comp = Smart /\ mounted
                                     THEN ErrorMessage(Smart, res)
                                     ELSE cameraError
                 /\ alertMsg' = IF comp \in {Capture, CaptureTsx}
                                  THEN ErrorMessage(comp, res) ELSE alertMsg
                 /\ UNCHANGED <<currentStream, srcObject, onloadedmetadata,
                                metaLoaded, playPending, isStreaming>>
  /\ UNCHANGED <<comp, mounted, cameraApi, devices, selectedDeviceId, started,
                 gdStarted, gd>>

\* the video element fires loadedmetadata for its live source: the
\* onloadedmetadata handler calls play(); an invocation of part_001 that
\* awaits the event resumes and calls play()
LoadedMetadata ==
  /\ UNCHANGED <<imgVars, auxVars>>
  /\ VideoMounted
  /\ IsLive(srcObject)
  /\ ~metaLoaded
  /\ metaLoaded' = TRUE
  /\ playPending' = (playPending \/ onloadedmetadata)
  /\ calls' = [j \in StartIds |->
                 IF calls[j].pc = "meta"
                   THEN [calls[j] EXCEPT !.pc = "play"] ELSE calls[j]]
  /\ UNCHANGED <<comp, mounted, cameraApi, streams, currentStream, srcObject,
                 onloadedmetadata, isStreaming, cameraError, alertMsg, logs,
                 devices, selectedDeviceId, started, lastCall, gdStarted, gd>>

\* a play() promise settles.  i = 0: the one the onloadedmetadata handler
\* made (.then sets isStreaming, .catch reports); i > 0: the one invocation
\* i of part_001 awaits
PlaySettle(i, res) ==
  /\ UNCHANGED <<imgVars, auxVars>>
  /\ IF i = 0 THEN playPending ELSE calls[i].pc = "play"
  /\ res = "ok" => VideoMounted /\ IsLive(srcObject)
  /\ playPending' = IF i = 0 THEN FALSE ELSE playPending
  /\ isStreaming' = IF res = "ok" /\ mounted THEN TRUE ELSE isStreaming
  /\ logs' = IF comp = Switcher /\ res # "ok"
               THEN AddLog(logs, "playError") ELSE logs
  /\ alertMsg' = IF comp = Capture /\ res # "ok"
                   THEN "play_failed" ELSE alertMsg
  /\ cameraError' =
       IF i # 0 /\ mounted
         THEN (IF res = "ok" THEN NoError ELSE ErrorMessage(Smart, res))
         ELSE cameraError
  /\ calls' = IF i = 0 THEN calls ELSE [calls EXCEPT ![i] = IdleCall]
  /\ lastCall' =
       IF i = 0 THEN lastCall
       ELSE [calls[i] EXCEPT !.pc = "done",
                             !.err = IF res = "ok" THEN @ ELSE res]
  /\ UNCHANGED <<comp, mounted, cameraApi, streams, currentStream, srcObject,
                 onloadedmetadata, metaLoaded, devices, selectedDeviceId,
                 started, gdStarted, gd>>

\* the session state stopCamera works on
SessionState ==
  [streams |-> streams, currentStream |-> currentStream,
   srcObject |-> srcObject, metaLoaded |-> metaLoaded,
   playPending |-> playPending, isStreaming |-> isStreaming,
   cameraError |-> cameraError]

\* variant: the session reference is not cleared
StopResultKeepsRef(c, st) ==
  [st EXCEPT !.streams = StopTracks(st.streams, st.currentStream),
             !.srcObject = 0,
             !.metaLoaded = FALSE,
             !.playPending = FALSE,
             !.isStreaming = FALSE,
             !.cameraError = IF c = Smart THEN NoError ELSE @]

\* stopCamera as a function of the session state.  CameraSwitcher and
\* part_001 assign srcObject = null; part_002 and CameraCapture.tsx do not,
\* but their <video> element is rendered only while isStreaming, so the
\* element and its srcObject are gone after the re-render.
StopResult(c, st) ==
  [st EXCEPT !.streams = StopTracks(st.streams, st.currentStream),
             !.currentStream = 0,
             !.srcObject = 0,
             !.metaLoaded = FALSE,
             !.playPending = FALSE,
             !.isStreaming = FALSE,
             !.cameraError = IF c = Smart THEN NoError ELSE @]

\* the stop button, rendered while isStreaming
StopCamera ==
  /\ UNCHANGED <<imgVars, auxVars>>
  /\ mounted
  /\ isStreaming
  /\ LET r == StopResult(comp, SessionState)
     IN /\ streams' = r.streams
        /\ currentStream' = r.currentStream
        /\ srcObject' = r.srcObject
        /\ metaLoaded' = r.metaLoaded
        /\ playPending' = r.playPending
        /\ isStreaming' = r.isStreaming
        /\ cameraError' = r.cameraError
  /\ logs' = AbortLogs(logs)
  /\ alertMsg' = AbortAlert(alertMsg)
  /\ calls' = AbortCalls(calls)
  /\ UNCHANGED <<comp, mounted, cameraApi, onloadedmetadata, devices,
                 selectedDeviceId, started, lastCall, gdStarted, gd>>

\* CameraSwitcher: a device of the list is selected (radio button)
SelectDevice(d) ==
  /\ UNCHANGED <<imgVars, auxVars>>
  /\ mounted
  /\ comp = Switcher
  /\ d \in devices
  /\ selectedDeviceId # d
  /\ selectedDeviceId' = d
  /\ UNCHANGED <<comp, mounted, cameraApi, streams, currentStream, srcObject,
                 onloadedmetadata, metaLoaded, playPending, isStreaming,
                 cameraError, alertMsg, logs, devices, calls, started,
                 lastCall, gdStarted, gd>>

\* the device getDevices selects: the first whose label carries a
\* triple / rear / main keyword, else the first that is not a front camera
IsBackLabel(d) == LabelOf(d) \cap {"triple", "rear", "main"} # {}
IsNotFrontLabel(d) == "front" \notin LabelOf(d)

\* Array.prototype.find over a set of matching indices
FindAt(ds, idx) ==
  IF idx = {} THEN NoDevice
  ELSE ds[CHOOSE k \in idx : \A m \in idx : k <= m]

BackCamera(ds) ==
  LET back == {k \in 1..Len(ds) : IsBackLabel(ds[k])}
      notFront == {k \in 1..Len(ds) : IsNotFrontLabel(ds[k])}
  IN IF back # {} THEN FindAt(ds, back) ELSE FindAt(ds, notFront)

\* CameraSwitcher: the device re-search button calls getDevices()
GetDevices ==
  /\ UNCHANGED <<imgVars, auxVars>>
  /\ mounted
  /\ comp = Switcher
  /\ gdStarted < MaxGetDevices
  /\ gdStarted' = gdStarted + 1
  /\ gd' = [gd EXCEPT ![NextGd].pc = "gum"]
  /\ UNCHANGED <<comp, mounted, cameraApi, streams, currentStream, srcObject,
                 onloadedmetadata, metaLoaded, playPending, isStreaming,
                 cameraError, alertMsg, logs, devices, selectedDeviceId,
                 calls, started, lastCall>>

\* getDevices leaving the tracks of its stream running
GetDevicesGumKeepsProbe(g, res) ==
  /\ UNCHANGED <<imgVars, auxVars>>
  /\ gd[g].pc = "gum"
  /\ IF res = "ok"
       THEN /\ gd' = [gd EXCEPT ![g].pc = "enum", ![g].probe = "live"]
            /\ UNCHANGED logs
       ELSE /\ logs' = AddLog(logs, "devicesError")
            /\ gd' = [gd EXCEPT ![g] = IdleGd]
  /\ UNCHANGED <<comp, mounted, cameraApi, streams, currentStream, srcObject,
                 onloadedmetadata, metaLoaded, playPending, isStreaming,
                 cameraError, alertMsg, devices, selectedDeviceId, calls,
                 started, lastCall, gdStarted>>

\* the getUserMedia({video: true}) of getDevices settles; the tracks of the
\* stream are stopped at once and enumerateDevices() is called
GetDevicesGum(g, res) ==
  /\ UNCHANGED <<imgVars, auxVars>>
  /\ gd[g].pc = "gum"
  /\ IF res = "ok"
       THEN /\ gd' = [gd EXCEPT ![g].pc = "enum", ![g].probe = "stopped"]
            /\ UNCHANGED logs
       ELSE /\ logs' = AddLog(logs, "devicesError")
            /\ gd' = [gd EXCEPT ![g] = IdleGd]
  /\ UNCHANGED <<comp, mounted, cameraApi, streams, currentStream, srcObject,
                 onloadedmetadata, metaLoaded, playPending, isStreaming,
                 cameraError, alertMsg, devices, selectedDeviceId, calls,
                 started, lastCall, gdStarted>>

\* enumerateDevices() of getDevices resolves: the list is stored and the
\* back camera is selected
GetDevicesEnum(g) ==
  /\ UNCHANGED <<imgVars, auxVars>>
  /\ gd[g].pc = "enum"
  /\ gd' = [gd EXCEPT ![g] = IdleGd]
  /\ devices' = IF mounted THEN DeviceIds ELSE devices
  /\ selectedDeviceId' =
       IF mounted /\ BackCamera(VideoDevices) # NoDevice
         THEN BackCamera(VideoDevices) ELSE selectedDeviceId
  /\ UNCHANGED <<comp, mounted, cameraApi, streams, currentStream, srcObject,
                 onloadedmetadata, metaLoaded, playPending, isStreaming,
                 cameraError, alertMsg, logs, calls, started, lastCall,
                 gdStarted>>

\* the application switches to another tab: the component is unmounted and
\* its <video> element removed.  Only part_001 registers a cleanup, which
\* stops the tracks of streamRef.current.
Unmount ==
  /\ UNCHANGED <<imgVars, auxVars>>
  /\ mounted
  /\ mounted' = FALSE
  /\ streams' = IF comp = Smart
                  THEN StopTracks(streams, currentStream) ELSE streams
  /\ srcObject' = 0
  /\ metaLoaded' = FALSE
  /\ UNCHANGED <<comp, cameraApi, currentStream, onloadedmetadata,
                 playPending, isStreaming, cameraError, alertMsg, logs,
                 devices, selectedDeviceId, calls, started, lastCall,
                 gdStarted, gd>>

PlayResults == {"ok", "NotAllowedError", "AbortError"}

\* ============================================================ recognition
\* ------------------------------------------------------------------ bounds
\* length of the raw texts handed to extractLicensePlate
MaxLen == 6
\* number of images in capturedImages / capturedPhotos
MaxImages == 2
\* number of processImage invocations in progress
MaxOcr == 2
\* the last value of the millisecond clock
MaxClock == 2

\* ------------------------------------------------------------------ texts
\* A text is a sequence of characters; a character is given by its class:
\*   "K" hiragana, katakana or kanji   (the three ranges of the patterns)
\*   "A" an upper case letter          [A-Z]
\*   "D" a digit                       \d
\*   "W" white space                   \s
\*   "x" any other character
\*   "-" the hyphen formatLicensePlate inserts
Alphabet == {"K", "A", "D", "W", "x"}
Texts == UNION {[1..n -> Alphabet] : n \in 0..MaxLen}

\* licensePlate / ocrText is undefined
NoPlate == <<"undefined">>
\* the text extractLicensePlate returns when nothing was read
Sentinel == <<"unreadable">>
\* a JavaScript string is truthy when defined and non-empty
Truthy(p) == p # NoPlate /\ p # <<>>

\* text.replace(/\s+/g, '')
Strip(t) == SelectSeq(t, LAMBDA ch : ch # "W")

\* the four patterns of extractLicensePlate, in list order; an element is
\* a character class with its least and greatest repetition, 0 for "+"
Patterns ==
  << <<[cls |-> "K", lo |-> 1, hi |-> 0], [cls |-> "D", lo |-> 1, hi |-> 3],
       [cls |-> "K", lo |-> 1, hi |-> 0], [cls |-> "D", lo |-> 1, hi |-> 4]>>,
     <<[cls |-> "A", lo |-> 1, hi |-> 0], [cls |-> "D", lo |-> 1, hi |-> 3],
       [cls |-> "A", lo |-> 1, hi |-> 0], [cls |-> "D", lo |-> 1, hi |-> 4]>>,
     <<[cls |-> "D", lo |-> 1, hi |-> 3], [cls |-> "K", lo |-> 1, hi |-> 0],
       [cls |-> "D", lo |-> 1, hi |-> 4]>>,
     <<[cls |-> "D", lo |-> 1, hi |-> 3], [cls |-> "A", lo |-> 1, hi |-> 0],
       [cls |-> "D", lo |-> 1, hi |-> 4]>> >>

\* number of consecutive characters of class cls from position pos
RunLen(s, pos, cls) ==
  LET ns == {n \in 0..(Len(s) + 1 - pos) :
               \A j \in 0..(n - 1) : s[pos + j] = cls}
  IN CHOOSE n \in ns : \A m \in ns : m <= n

\* the backtracking matcher: the position after the match of the elements
\* k.. of pat from position pos, each element taking as many characters as
\* lets the rest match; -1 when there is none
RECURSIVE MatchAt(_, _, _, _)
MatchAt(pat, k, s, pos) ==
  IF k > Len(pat) THEN pos
  ELSE LET e == pat[k]
           run == RunLen(s, pos, e.cls)
           top == IF e.hi = 0 \/ run < e.hi THEN run ELSE e.hi
           fits == {n \in e.lo..top : MatchAt(pat, k + 1, s, pos + n) # -1}
       IN IF fits = {} THEN -1
          ELSE MatchAt(pat, k + 1, s,
                       pos + (CHOOSE n \in fits : \A m \in fits : m <= n))

\* the positions a match of pat starts at
MatchStarts(pat, s) == {p \in 1..Len(s) : MatchAt(pat, 1, s, p) # -1}

\* String.prototype.match without the g flag: match[0], the leftmost match
MatchOf(pat, s) ==
  LET p == CHOOSE q \in MatchStarts(pat, s) :
             \A r \in MatchStarts(pat, s) : q <= r
  IN SubSeq(s, p, MatchAt(pat, 1, s, p) - 1)

\* extractLicensePlate of part_001 and part_002
extractLicensePlateLeftmost(t) ==
  LET cleanText == Strip(t)
      hit == {k \in 1..Len(Patterns) : MatchStarts(Patterns[k], cleanText) # {}}
      at(k) == CHOOSE q \in MatchStarts(Patterns[k], cleanText) :
                 \A r \in MatchStarts(Patterns[k], cleanText) : q <= r
  IN IF hit # {}
       THEN MatchOf(Patterns[CHOOSE k \in hit : \A j \in hit : at(k) <= at(j)],
                    cleanText)
       ELSE IF Len(cleanText) > 0 THEN cleanText ELSE Sentinel
extractLicensePlate(t) ==
  LET cleanText == Strip(t)
      hit == {k \in 1..Len(Patterns) : MatchStarts(Patterns[k], cleanText) # {}}
  IN IF hit # {}
       THEN MatchOf(Patterns[CHOOSE k \in hit : \A j \in hit : k <= j],
                    cleanText)
       ELSE IF Len(cleanText) > 0 THEN cleanText ELSE Sentinel

\* String.prototype.trim
Trim(t) ==
  LET inner == {k \in 1..Len(t) : t[k] # "W"}
  IN IF inner = {} THEN <<>>
     ELSE SubSeq(t, CHOOSE k \in inner : \A j \in inner : k <= j,
                    CHOOSE k \in inner : \A j \in inner : k >= j)

\* formatLicensePlate of CameraCapture.tsx
formatLicensePlate(t) ==
  LET formatted == SelectSeq(t, LAMBDA ch : ch \in {"A", "D"})
      n == Len(formatted)
  IN IF n = 7
       THEN SubSeq(formatted, 1, 3) \o <<"-">> \o SubSeq(formatted, 4, n)
     ELSE IF n = 6
       THEN SubSeq(formatted, 1, 2) \o <<"-">> \o SubSeq(formatted, 3, n)
     ELSE formatted

\* text.replace(/\s+/g, ' ').trim() of CameraSwitcher.capturePhoto
CleanedText(t) ==
  LET tr == Trim(t)
      keep == {k \in 1..Len(tr) : tr[k] # "W" \/ tr[k - 1] # "W"}
      RECURSIVE Pick(_)
      Pick(k) == IF k > Len(tr) THEN <<>>
                 ELSE (IF k \in keep THEN <<tr[k]>> ELSE <<>>) \o Pick(k + 1)
  IN Pick(1)

\* ----------------------------------------------------------------- images
\* the files the user can choose, and what an encoded still is:
\* a file's content, a frame, or the empty image of a 0x0 canvas
Files == {"f1", "f2"}
\* the files whose content does not decode as an image (the accept
\* attribute of the file input does not keep the user from choosing one)
Undecodable == {"f2"}
\* the raw texts the recognition engine answers with in the pipeline runs:
\* nothing, white space only, and a plate with white space around and in it
RawTexts ==
  {<<>>, <<"W">>, <<"W", "K", "D", "W", "K", "D">>}
\* error messages attached to an image
OcrErrorText(c) == IF c = CaptureTsx THEN "notRecognized" ELSE "ocrFailed"
\* selectedSpot by its class: 0, within 1..100, above 100
SpotClasses == {"zero", "within", "above"}
\* the classes the user enters
SpotInputs == {"zero", "within"}

IdleSubmission == [pc |-> "idle", licensePlate |-> NoPlate]
IdleCap ==
  [pc |-> "idle", worker |-> FALSE,
   photo |-> [id |-> 0, imageData |-> "none", ocrText |-> NoPlate]]

\* another processImage invocation fits the bound
FreeOcr == BagCardinality(ocr) < MaxOcr

\* processImage(dataUrl, imageId) up to its first await: CameraCapture.tsx
\* awaits preprocessImage first, the others the recognition itself
ProcessImage(o, dataUrl, imageId) ==
  o (+) SetToBag({[pc |-> IF comp = CaptureTsx THEN "prep" ELSE "run",
                   imageId |-> imageId, dataUrl |-> dataUrl]})

\* the image capturePhoto and reader.onload create
NewImage(dataUrl, imageId) ==
  [id |-> imageId, dataUrl |-> dataUrl, isProcessing |-> TRUE,
   licensePlate |-> NoPlate, error |-> NoError]

\* setCapturedImages(prev => [newImage, ...prev]); processImage(...)
AddImage(dataUrl) ==
  /\ Len(capturedImages) < MaxImages
  /\ FreeOcr
  /\ capturedImages' =
       IF mounted THEN <<NewImage(dataUrl, now)>> \o capturedImages
                  ELSE capturedImages
  /\ ocr' = ProcessImage(ocr, dataUrl, now)

\* prev.map(img => img.id === imageId ? {...img, licensePlate,
\* isProcessing: false} : img)
WithPlate(imgs, imageId, plate) ==
  [p \in DOMAIN imgs |->
     IF imgs[p].id = imageId
       THEN [imgs[p] EXCEPT !.licensePlate = plate, !.isProcessing = FALSE]
       ELSE imgs[p]]

\* a catch block whose message depends on the error the image carries
WithErrorRepeated(imgs, imageId, msg) ==
  [p \in DOMAIN imgs |->
     IF imgs[p].id = imageId
       THEN [imgs[p] EXCEPT
               !.error = IF imgs[p].error = NoError THEN msg ELSE "again",
               !.isProcessing = FALSE]
       ELSE imgs[p]]

\* prev.map(img => img.id === imageId ? {...img, error, isProcessing:
\* false} : img)
WithError(imgs, imageId, msg) ==
  [p \in DOMAIN imgs |->
     IF imgs[p].id = imageId
       THEN [imgs[p] EXCEPT !.error = msg, !.isProcessing = FALSE]
       ELSE imgs[p]]

\* prev.filter(img => img.licensePlate !== licensePlate)
WithoutPlate(imgs, plate) ==
  SelectSeq(imgs, LAMBDA img : img.licensePlate # plate)

\* prev.filter(p => p.id !== photoId)
WithoutId(photos, photoId) ==
  SelectSeq(photos, LAMBDA ph : ph.id # photoId)

\* the recognition result as the component stores it
PlateTable ==
  [c \in Components |->
     [raw \in RawTexts |->
        IF c = CaptureTsx THEN formatLicensePlate(Trim(raw))
                          ELSE extractLicensePlate(raw)]]
PlateOf(c, raw) == PlateTable[c][raw]

camVars ==
  <<comp, mounted, cameraApi, streams, currentStream, srcObject,
    onloadedmetadata, metaLoaded, playPending, isStreaming, cameraError,
    alertMsg, devices, selectedDeviceId, calls, started, lastCall,
    gdStarted, gd>>

\* ---------------------------------------------------------------- actions
\* one millisecond passes
Tick ==
  /\ mounted
  /\ now < MaxClock
  /\ now' = now + 1
  /\ UNCHANGED <<auxVars, camVars, logs, capturedImages, ocr, isSubmitting,
                 submission, message, selectedSpot, capturedPhotos,
                 isProcessing, ocrWorker, cap, text, extracted>>

\* reader.onload of handleFileUpload, for a file the user chose; the file
\* input is rendered while not streaming
FileLoaded(f) ==
  /\ mounted
  /\ comp # Switcher
  /\ ~isStreaming
  /\ AddImage(f)
  /\ UNCHANGED <<auxVars, camVars, logs, now, isSubmitting, submission, message,
                 selectedSpot, capturedPhotos, isProcessing, ocrWorker, cap,
                 text, extracted>>

\* capturePhoto, from the shutter button (rendered while streaming; the
\* one of CameraSwitcher is disabled while isProcessing)
CapturePhoto ==
  /\ mounted
  /\ isStreaming
  /\ IF comp = Switcher
       THEN /\ ~isProcessing
            /\ cap.pc = "idle"
            /\ Len(capturedPhotos) < MaxImages
            /\ isProcessing' = TRUE
            \* videoWidth and videoHeight are 0 until loadedmetadata
            /\ cap' = [pc |-> "loc", worker |-> ocrWorker = "ready",
                       photo |-> [id |-> now,
                                  imageData |-> IF metaLoaded THEN "frame"
                                                              ELSE "blank",
                                  ocrText |-> NoPlate]]
            /\ UNCHANGED <<capturedImages, ocr>>
       ELSE /\ IF comp = Smart /\ ~metaLoaded
                 THEN UNCHANGED <<capturedImages, ocr>>
                 ELSE AddImage(IF metaLoaded THEN "frame" ELSE "blank")
            /\ UNCHANGED <<isProcessing, cap>>
  /\ UNCHANGED <<auxVars, camVars, logs, now, isSubmitting, submission,
                 message, selectedSpot, capturedPhotos, ocrWorker, text,
                 extracted>>

\* preprocessImage resolves (CameraCapture.tsx): img.onload fires, which it
\* does not for a data URL that fails to decode; there is no img.onerror
PrepSettle(c) ==
  /\ BagIn(c, ocr)
  /\ c.pc = "prep"
  /\ c.dataUrl \notin Undecodable
  /\ ocr' = (ocr (-) SetToBag({c})) (+) SetToBag({[c EXCEPT !.pc = "run"]})
  /\ UNCHANGED <<auxVars, camVars, logs, capturedImages, now, isSubmitting,
                 submission, message, selectedSpot, capturedPhotos,
                 isProcessing, ocrWorker, cap, text, extracted>>

\* Tesseract.recognize settles: with a raw text, or it throws
OcrSettle(c, res) ==
  /\ BagIn(c, ocr)
  /\ c.pc = "run"
  /\ ocr' = ocr (-) SetToBag({c})
  /\ capturedImages' =
       IF ~mounted THEN capturedImages
       ELSE IF res = <<"throw">>
         THEN WithError(capturedImages, c.imageId, OcrErrorText(comp))
         ELSE WithPlate(capturedImages, c.imageId, PlateOf(comp, res))
  /\ UNCHANGED <<auxVars, camVars, logs, now, isSubmitting, submission,
                 message, selectedSpot, capturedPhotos, isProcessing,
                 ocrWorker, cap, text, extracted>>

\* the retry button of an image, rendered when image.error is set
Retry(p) ==
  /\ mounted
  /\ p \in DOMAIN capturedImages
  /\ capturedImages[p].error # NoError
  /\ FreeOcr
  /\ ocr' = ProcessImage(ocr, capturedImages[p].dataUrl, capturedImages[p].id)
  /\ UNCHANGED <<auxVars, camVars, logs, capturedImages, now, isSubmitting,
                 submission, message, selectedSpot, capturedPhotos,
                 isProcessing, ocrWorker, cap, text, extracted>>

\* the first image with a truthy plate: what the submit button of part_001
\* and part_002 submits
HasPlate == {p \in DOMAIN capturedImages : Truthy(capturedImages[p].licensePlate)}
FirstPlate ==
  capturedImages[CHOOSE p \in HasPlate : \A q \in HasPlate : p <= q].licensePlate

\* the validation submitParkingRecord starts with fails
SpotRejected(c, spot) ==
  IF c = CaptureTsx THEN spot = "zero" ELSE spot # "within"

\* the number input of the form
SetSpot(s) ==
  /\ mounted
  /\ comp # Switcher
  /\ HasPlate # {}
  /\ selectedSpot # s
  /\ selectedSpot' = s
  /\ UNCHANGED <<auxVars, camVars, logs, capturedImages, ocr, now, isSubmitting, submission, message, capturedPhotos,
                 isProcessing, ocrWorker, cap, text, extracted>>

\* the submit button up to the first await of submitParkingRecord; p is the
\* image whose button was pressed (CameraCapture.tsx has one per image)
Submit(p) ==
  /\ mounted
  /\ comp # Switcher
  /\ ~isSubmitting
  /\ p \in HasPlate
  /\ comp # CaptureTsx =>
       capturedImages[p].licensePlate = FirstPlate /\ \A q \in HasPlate : p <= q
  /\ IF SpotRejected(comp, selectedSpot)
       THEN /\ message' = "error"
            /\ UNCHANGED <<isSubmitting, submission>>
       ELSE /\ isSubmitting' = TRUE
            /\ submission' = [pc |-> "post",
                              licensePlate |-> capturedImages[p].licensePlate]
            /\ UNCHANGED message
  /\ UNCHANGED <<auxVars, camVars, logs, capturedImages, ocr, now, selectedSpot, capturedPhotos, isProcessing, ocrWorker, cap,
                 text, extracted>>

\* the request of submitParkingRecord settles
SubmitSettle(res) ==
  /\ submission.pc = "post"
  /\ submission' = IdleSubmission
  /\ IF ~mounted
       THEN UNCHANGED <<capturedImages, message, selectedSpot, isSubmitting>>
       ELSE /\ isSubmitting' = FALSE
            /\ IF res = "ok"
                 THEN /\ message' = "success"
                      /\ selectedSpot' = "within"
                      /\ capturedImages' =
                           WithoutPlate(capturedImages, submission.licensePlate)
                 ELSE /\ message' = "error"
                      /\ UNCHANGED <<capturedImages, selectedSpot>>
  /\ UNCHANGED <<auxVars, camVars, logs, ocr, now, capturedPhotos,
                 isProcessing, ocrWorker, cap, text, extracted>>

\* the timer of the message effect
MessageTimeout ==
  /\ mounted
  /\ message # "none"
  /\ message' = "none"
  /\ UNCHANGED <<auxVars, camVars, logs, capturedImages, ocr, now, isSubmitting, submission, selectedSpot, capturedPhotos,
                 isProcessing, ocrWorker, cap, text, extracted>>

\* the clear button of part_002
Clear ==
  /\ mounted
  /\ comp = Capture
  /\ HasPlate # {}
  /\ capturedImages' = <<>>
  /\ UNCHANGED <<auxVars, camVars, logs, ocr, now, isSubmitting, submission,
                 message, selectedSpot, capturedPhotos, isProcessing,
                 ocrWorker, cap, text, extracted>>

\* initOCRWorker of CameraSwitcher settles
WorkerSettle(res) ==
  /\ ocrWorker = "pending"
  /\ ocrWorker' = IF res = "ok" /\ mounted THEN "ready" ELSE "null"
  /\ logs' = IF res = "ok" THEN logs ELSE AddLog(logs, "workerError")
  /\ UNCHANGED <<auxVars, camVars, capturedImages, ocr, now, isSubmitting,
                 submission, message, selectedSpot, capturedPhotos,
                 isProcessing, cap, text, extracted>>

\* setCapturedPhotos(prev => [photo, ...prev]) and the finally block of
\* capturePhoto
SavePhoto(photo) ==
  /\ cap' = IdleCap
  /\ capturedPhotos' =
       IF mounted THEN <<photo>> \o capturedPhotos ELSE capturedPhotos
  /\ isProcessing' = IF mounted THEN FALSE ELSE isProcessing

\* getCurrentLocation of capturePhoto settles; without a worker the photo
\* is saved at once
CapLocSettle ==
  /\ cap.pc = "loc"
  /\ IF cap.worker
       THEN /\ cap' = [cap EXCEPT !.pc = "ocr"]
            /\ UNCHANGED <<capturedPhotos, isProcessing>>
       ELSE SavePhoto(cap.photo)
  /\ UNCHANGED <<auxVars, camVars, logs, capturedImages, ocr, now, isSubmitting, submission, message, selectedSpot, ocrWorker,
                 text, extracted>>

\* ocrWorker.recognize of capturePhoto settles
CapOcrSettle(res) ==
  /\ cap.pc = "ocr"
  /\ IF res = <<"throw">>
       THEN /\ SavePhoto(cap.photo)
            /\ logs' = AddLog(logs, "ocrError")
       ELSE /\ SavePhoto([cap.photo EXCEPT !.ocrText = CleanedText(res)])
            /\ UNCHANGED logs
  /\ UNCHANGED <<auxVars, camVars, capturedImages, ocr, now, isSubmitting,
                 submission, message, selectedSpot, ocrWorker, text,
                 extracted>>

\* deletePhoto
DeletePhoto(p) ==
  /\ mounted
  /\ p \in DOMAIN capturedPhotos
  /\ capturedPhotos' = WithoutId(capturedPhotos, capturedPhotos[p].id)
  /\ UNCHANGED <<auxVars, camVars, logs, capturedImages, ocr, now, isSubmitting, submission, message, selectedSpot,
                 isProcessing, ocrWorker, cap, text, extracted>>

\* extractLicensePlate applied to a text
Extract ==
  /\ extracted = NoPlate
  /\ extracted' = extractLicensePlate(text)
  /\ UNCHANGED <<auxVars, camVars, logs, capturedImages, ocr, now, isSubmitting, submission, message, selectedSpot,
                 capturedPhotos, isProcessing, ocrWorker, cap, text>>

OcrResults == RawTexts \cup {<<"throw">>}

\* a deterministic engine: the same bytes give the same text or throw
Engines == [Files -> OcrResults]

\* reader.onload in a millisecond in which no image was created before:
\* Date.now() is an id no image and no processImage invocation carries
FileLoadedApart(f) ==
  /\ \A p \in DOMAIN capturedImages : capturedImages[p].id # now
  /\ \A c \in BagToSet(ocr) : c.imageId # now
  /\ FileLoaded(f)

\* Tesseract.recognize settles, the engine being deterministic
DetOcrSettle(c) ==
  /\ c.dataUrl \in Files
  /\ OcrSettle(c, engine[c.dataUrl])
\* no engine fixed: every call settles with any result
NoEngine == [f \in Files |-> <<>>]

\* ================================================================ ranking
\* ------------------------------------------------------------------ bounds
\* length of the device lists that are ranked
MaxDevices == 3

\* the devices a list is made of, see LabelOf
RankDevices ==
  {"back", "dual", "wide", "ultra", "tele", "main", "plain", "front"}
\* the lists enumerateDevices can report: no deviceId twice
DeviceLists ==
  {ds \in UNION {[1..n -> RankDevices] : n \in 0..MaxDevices} :
     \A i, j \in DOMAIN ds : i # j => ds[i] # ds[j]}

\* getCameraPriority(label), for the label of device d
getCameraPriority(d) ==
  LET label == LabelOf(d)
  IN IF "triple" \in label THEN 5
     ELSE IF "dualwide" \in label THEN 4
     ELSE IF "rear" \in label /\ "ultrawide" \notin label
                              /\ "tele" \notin label THEN 3
     ELSE IF "ultrawide" \in label THEN 2
     ELSE IF "tele" \in label THEN 1
     ELSE 0

\* [...devices].sort((a, b) => getCameraPriority(b.label) -
\* getCameraPriority(a.label)): Array.prototype.sort is stable, an element
\* goes behind every element placed before it that does not rank below it
RECURSIVE SortInto(_, _)
SortInto(done, rest) ==
  IF rest = <<>> THEN done
  ELSE LET d == Head(rest)
           ahead == SelectSeq(done, LAMBDA e :
                      getCameraPriority(e) >= getCameraPriority(d))
           behind == SelectSeq(done, LAMBDA e :
                       getCameraPriority(e) < getCameraPriority(d))
       IN SortInto(ahead \o <<d>> \o behind, Tail(rest))

sortedDevices(ds) == SortInto(<<>>, ds)

\* the continuation of getDevices after enumerateDevices for any list:
\* the list is stored, the back camera selected, and the render that
\* follows computes sortedDevices
ListDevices ==
  /\ mounted
  /\ enumerated # <<>>
  /\ devices = {}
  /\ devices' = {enumerated[k] : k \in DOMAIN enumerated}
  /\ selectedDeviceId' =
       IF BackCamera(enumerated) # NoDevice
         THEN BackCamera(enumerated) ELSE selectedDeviceId
  /\ sorted' = sortedDevices(enumerated)
  /\ UNCHANGED <<comp, mounted, cameraApi, streams, currentStream, srcObject,
                 onloadedmetadata, metaLoaded, playPending, isStreaming,
                 cameraError, alertMsg, logs, calls, started, lastCall,
                 gdStarted, gd, imgVars, enumerated, engine, is_occupied,
                 parking_records, requests>>

\* ================================================================= server
\* src/server.js: the two tables and the handlers of check-in and
\* check-out.  A step is the arrival of a request or the completion of one
\* statement together with the callback it calls; statements of different
\* requests complete in any order.
\* ------------------------------------------------------------------ bounds
\* number of rows of parking_spots (the code inserts 100)
NumSpots == 2
\* number of requests the server receives in one run
MaxRequests == 4

Spots == 1..NumSpots
\* req.body.license_plate: missing or given
PlateInputs == {"", "plate"}
\* what a statement calls its callback with
DbResults == {"ok", "err"}

\* the rows of parking_records with check_out_time IS NULL for a spot
OpenRecords(recs, spot) ==
  {id \in DOMAIN recs :
     recs[id].spot_number = spot /\ recs[id].check_out_time = "NULL"}

\* the client beside the server
clientVars ==
  <<comp, mounted, cameraApi, streams, currentStream, srcObject,
    onloadedmetadata, metaLoaded, playPending, isStreaming, cameraError,
    alertMsg, logs, devices, selectedDeviceId, calls, started, lastCall,
    gdStarted, gd, imgVars, enumerated, sorted, engine>>

\* a request proceeds to its next statement
Proceed(reqs, c, d) == (reqs (-) SetToBag({c})) (+) SetToBag({d})

\* res.status(...).json(...): the request is answered
Respond(reqs, c, status) ==
  Proceed(reqs, c, [c EXCEPT !.pc = "done", !.status = status])

\* POST /api/parking-records arrives: validation, then the SELECT is issued
PostParkingRecord(plate, spot) ==
  /\ BagCardinality(requests) < MaxRequests
  /\ requests' = requests (+) SetToBag({
       IF plate = "" \/ spot = 0
         THEN [kind |-> "post", pc |-> "done", spot_number |-> spot,
               id |-> 0, status |-> 400]
         ELSE [kind |-> "post", pc |-> "select", spot_number |-> spot,
               id |-> 0, status |-> 0]})
  /\ UNCHANGED <<is_occupied, parking_records, clientVars>>

\* the SELECT of the occupancy check completes
PostSelect(c, res) ==
  /\ BagIn(c, requests)
  /\ c.kind = "post"
  /\ c.pc = "select"
  /\ requests' =
       IF res = "err" THEN Respond(requests, c, 500)
       ELSE IF OpenRecords(parking_records, c.spot_number) # {}
         THEN Respond(requests, c, 400)
       ELSE Proceed(requests, c, [c EXCEPT !.pc = "insert"])
  /\ UNCHANGED <<is_occupied, parking_records, clientVars>>

\* the INSERT completes; this.lastID is the id of the new row
PostInsert(c, res) ==
  /\ BagIn(c, requests)
  /\ c.kind = "post"
  /\ c.pc = "insert"
  /\ IF res = "err"
       THEN /\ requests' = Respond(requests, c, 500)
            /\ UNCHANGED parking_records
       ELSE /\ parking_records' = Append(parking_records,
                 [spot_number |-> c.spot_number, check_out_time |-> "NULL"])
            /\ requests' =
                 Proceed(requests, c, [c EXCEPT !.pc = "update",
                                                !.id = Len(parking_records) + 1])
  /\ UNCHANGED <<is_occupied, clientVars>>

\* UPDATE parking_spots SET is_occupied = TRUE completes
PostUpdate(c, res) ==
  /\ BagIn(c, requests)
  /\ c.kind = "post"
  /\ c.pc = "update"
  /\ IF res = "err"
       THEN /\ requests' = Respond(requests, c, 500)
            /\ UNCHANGED is_occupied
       ELSE /\ is_occupied' = [is_occupied EXCEPT ![c.spot_number] = TRUE]
            /\ requests' = Respond(requests, c, 200)
  /\ UNCHANGED <<parking_records, clientVars>>

\* PUT /api/parking-records/:id/checkout arrives: the SELECT is issued
PutCheckout(recordId) ==
  /\ BagCardinality(requests) < MaxRequests
  /\ requests' = requests (+) SetToBag({
       [kind |-> "put", pc |-> "select", spot_number |-> 0,
        id |-> recordId, status |-> 0]})
  /\ UNCHANGED <<is_occupied, parking_records, clientVars>>

\* SELECT spot_number FROM parking_records WHERE id = ? completes
PutSelect(c, res) ==
  /\ BagIn(c, requests)
  /\ c.kind = "put"
  /\ c.pc = "select"
  /\ requests' =
       IF res = "err" THEN Respond(requests, c, 500)
       ELSE IF c.id \notin DOMAIN parking_records
         THEN Respond(requests, c, 404)
       ELSE Proceed(requests, c,
              [c EXCEPT !.pc = "update_record",
                        !.spot_number = parking_records[c.id].spot_number])
  /\ UNCHANGED <<is_occupied, parking_records, clientVars>>

\* UPDATE parking_records SET check_out_time = CURRENT_TIMESTAMP completes
PutUpdateRecord(c, res) ==
  /\ BagIn(c, requests)
  /\ c.kind = "put"
  /\ c.pc = "update_record"
  /\ IF res = "err"
       THEN /\ requests' = Respond(requests, c, 500)
            /\ UNCHANGED parking_records
       ELSE /\ parking_records' =
                 [parking_records EXCEPT ![c.id].check_out_time = "set"]
            /\ requests' =
                 Proceed(requests, c, [c EXCEPT !.pc = "update_spot"])
  /\ UNCHANGED <<is_occupied, clientVars>>

\* UPDATE parking_spots SET is_occupied = FALSE completes
PutUpdateSpot(c, res) ==
  /\ BagIn(c, requests)
  /\ c.kind = "put"
  /\ c.pc = "update_spot"
  /\ IF res = "err"
       THEN /\ requests' = Respond(requests, c, 500)
            /\ UNCHANGED is_occupied
       ELSE /\ is_occupied' = [is_occupied EXCEPT ![c.spot_number] = FALSE]
            /\ requests' = Respond(requests, c, 200)
  /\ UNCHANGED <<parking_records, clientVars>>

\* the tables after db.serialize of the start-up: every spot free, no record
ServerInit ==
  /\ is_occupied = [s \in Spots |-> FALSE]
  /\ parking_records = <<>>
  /\ requests = EmptyBag

ServerNext ==
  \/ \E plate \in PlateInputs : \E spot \in {0} \cup Spots :
       PostParkingRecord(plate, spot)
  \/ \E c \in BagToSet(requests) : \E res \in DbResults : PostSelect(c, res)
  \/ \E c \in BagToSet(requests) : \E res \in DbResults : PostInsert(c, res)
  \/ \E c \in BagToSet(requests) : \E res \in DbResults : PostUpdate(c, res)
  \/ \E recordId \in 1..MaxRequests : PutCheckout(recordId)
  \/ \E c \in BagToSet(requests) : \E res \in DbResults : PutSelect(c, res)
  \/ \E c \in BagToSet(requests) : \E res \in DbResults : PutUpdateRecord(c, res)
  \/ \E c \in BagToSet(requests) : \E res \in DbResults : PutUpdateSpot(c, res)

\* ------------------------------------------------------------------- init
\* the component after mounting
ClientInit ==
  /\ comp \in Components
  /\ mounted = TRUE
  /\ cameraApi \in (IF comp = Capture THEN {"ok", "unsupported", "insecure"}
                                      ELSE {"ok"})
  /\ streams = <<>>
  /\ currentStream = 0
  /\ srcObject = 0
  /\ onloadedmetadata = FALSE
  /\ metaLoaded = FALSE
  /\ playPending = FALSE
  /\ isStreaming = FALSE
  /\ cameraError = NoError
  /\ alertMsg = NoError
  /\ logs = "none"
  /\ devices = {}
  /\ selectedDeviceId = NoDevice
  /\ calls = [i \in StartIds |-> IdleCall]
  /\ started = 0
  /\ lastCall = IdleCall
  /\ gdStarted = IF comp = Switcher THEN 1 ELSE 0
  \* the mount effect of CameraSwitcher has called getDevices()
  /\ gd = [g \in GdIds |->
            IF comp = Switcher /\ g = 1
              THEN [IdleGd EXCEPT !.pc = "gum"] ELSE IdleGd]
  /\ capturedImages = <<>>
  /\ ocr = EmptyBag
  /\ now = 1
  /\ isSubmitting = FALSE
  /\ submission = IdleSubmission
  /\ message = "none"
  /\ selectedSpot = "within"
  /\ capturedPhotos = <<>>
  /\ isProcessing = FALSE
  \* the mount effect of CameraSwitcher has called initOCRWorker()
  /\ ocrWorker = IF comp = Switcher THEN "pending" ELSE "null"
  /\ cap = IdleCap
  /\ text = <<>>
  /\ extracted = NoPlate

\* no device list is being ranked
RankIdle == enumerated = <<>> /\ sorted = <<>>

Init ==
  /\ ClientInit
  /\ RankIdle
  /\ engine = NoEngine
  /\ ServerInit

Next ==
  \/ \E d \in DeviceIds \cup {NoDevice} : StartCamera(d)
  \/ \E i \in StartIds : EnumSettle(i)
  \/ \E i \in StartIds : \E res \in {"ok"} \cup ErrorNames : GumSettle(i, res)
  \/ LoadedMetadata
  \/ \E i \in StartIds \cup {0} : \E res \in PlayResults : PlaySettle(i, res)
  \/ StopCamera
  \/ \E d \in DeviceIds : SelectDevice(d)
  \/ GetDevices
  \/ \E g \in GdIds : \E res \in {"ok"} \cup ErrorNames : GetDevicesGum(g, res)
  \/ \E g \in GdIds : GetDevicesEnum(g)
  \/ Unmount

Spec == Init /\ [][Next]_vars

\* ------------------------------------------------- the ranking by itself
\* CameraSwitcher freshly mounted, enumerateDevices reporting any list
RankInit ==
  /\ ClientInit
  /\ comp = Switcher
  /\ enumerated \in DeviceLists
  /\ sorted = <<>>
  /\ engine = NoEngine
  /\ ServerInit

RankSpec == RankInit /\ [][ListDevices]_vars

\* -------------------------------------------------- the server by itself
\* the requests of any clients; the component of this client stays as
\* mounted
ServerStart == Init /\ comp = Smart

ServerSpec == ServerStart /\ [][ServerNext]_vars

\* ---------------------------------------------- the recognition pipeline
\* The images of part_001, part_002 and CameraCapture.tsx. These components
\* never reach isStreaming (videoRef.current is null when the stream
\* arrives), so their images come from files and the camera is left out.
PipelineInit == Init /\ comp # Switcher /\ cameraApi = "ok"

PipelineNext ==
  \/ Tick
  \/ \E f \in Files : FileLoaded(f)
  \/ \E c \in BagToSet(ocr) : PrepSettle(c)
  \/ \E c \in BagToSet(ocr) : \E res \in OcrResults : OcrSettle(c, res)
  \/ \E p \in 1..MaxImages : Retry(p)
  \/ \E s \in SpotInputs : SetSpot(s)
  \/ \E p \in 1..MaxImages : Submit(p)
  \/ \E res \in {"ok", "fail"} : SubmitSettle(res)
  \/ MessageTimeout
  \/ Clear

PipelineSpec == PipelineInit /\ [][PipelineNext]_vars

\* --------------------------------------------- the pipeline, with progress
\* the processImage invocations there can be
OcrCalls ==
  [pc : {"prep", "run"}, imageId : 1..MaxClock, dataUrl : Files]

\* PipelineSpec where every call of the recognition engine eventually
\* returns or throws, and the browser eventually fires the load event of
\* an image that decodes
LiveSpec ==
  /\ PipelineInit
  /\ [][PipelineNext]_vars
  /\ \A c \in OcrCalls :
       /\ WF_vars(PrepSettle(c))
       /\ WF_vars(\E res \in OcrResults : OcrSettle(c, res))

\* ------------------------------------- the pipeline, engine deterministic
\* PipelineSpec with an engine that answers the same for the same file and
\* files loaded at least a millisecond apart, so that an id names one image
DetInit ==
  /\ ClientInit
  /\ comp # Switcher
  /\ cameraApi = "ok"
  /\ RankIdle
  /\ engine \in Engines
  /\ ServerInit

DetNext ==
  \/ Tick
  \/ \E f \in Files : FileLoadedApart(f)
  \/ \E c \in BagToSet(ocr) : PrepSettle(c)
  \/ \E c \in BagToSet(ocr) : DetOcrSettle(c)
  \/ \E p \in 1..MaxImages : Retry(p)
  \/ \E s \in SpotInputs : SetSpot(s)
  \/ \E p \in 1..MaxImages : Submit(p)
  \/ \E res \in {"ok", "fail"} : SubmitSettle(res)
  \/ MessageTimeout
  \/ Clear

DetSpec == DetInit /\ [][DetNext]_vars

\* ------------------------------------------- the shutter of CameraSwitcher
\* capturePhoto of CameraSwitcher beside one start of the camera: the
\* handlers of Next up to one start-camera and one getDevices invocation,
\* and the handlers of the photos.
ShutterInit == Init /\ comp = Switcher

CameraStep == Next /\ started' <= 1 /\ gdStarted' <= 1

ShutterNext ==
  \/ CameraStep
  \/ Tick
  \/ CapturePhoto
  \/ \E res \in {"ok", "fail"} : WorkerSettle(res)
  \/ CapLocSettle
  \/ \E res \in OcrResults : CapOcrSettle(res)
  \/ \E p \in 1..MaxImages : DeletePhoto(p)

ShutterSpec == ShutterInit /\ [][ShutterNext]_vars

\* ------------------------------------------- extractLicensePlate by itself
\* the component is part_002, freshly mounted; the text is any text
ExtractInit ==
  /\ text \in Texts
  /\ extracted = NoPlate
  /\ comp = Capture
  /\ mounted = TRUE
  /\ cameraApi = "ok"
  /\ streams = <<>>
  /\ currentStream = 0
  /\ srcObject = 0
  /\ onloadedmetadata = FALSE
  /\ metaLoaded = FALSE
  /\ playPending = FALSE
  /\ isStreaming = FALSE
  /\ cameraError = NoError
  /\ alertMsg = NoError
  /\ logs = "none"
  /\ devices = {}
  /\ selectedDeviceId = NoDevice
  /\ calls = [i \in StartIds |-> IdleCall]
  /\ started = 0
  /\ lastCall = IdleCall
  /\ gdStarted = 0
  /\ gd = [g \in GdIds |-> IdleGd]
  /\ capturedImages = <<>>
  /\ ocr = EmptyBag
  /\ now = 1
  /\ isSubmitting = FALSE
  /\ submission = IdleSubmission
  /\ message = "none"
  /\ selectedSpot = "within"
  /\ capturedPhotos = <<>>
  /\ isProcessing = FALSE
  /\ ocrWorker = "null"
  /\ cap = IdleCap
  /\ RankIdle
  /\ engine = NoEngine
  /\ ServerInit

ExtractSpec ==
  /\ ExtractInit
  /\ [][Extract]_vars

\* ------------------------------------------------- properties of the calls
\* the invocations that are in progress or returned last
KnownCalls ==
  {calls[i] : i \in {j \in StartIds : calls[j].pc # "idle"}}
    \cup (IF lastCall.pc = "done" THEN {lastCall} ELSE {})

\* number of getUserMedia calls an invocation has issued
Issued(c) == Len(c.hist) + (IF c.pc = "gum" THEN 1 ELSE 0)

\* the request of the k-th call
RequestAt(c, k) == IF k <= Len(c.hist) THEN c.hist[k][1] ELSE c.req

\* the chain is exhausted: its last call failed
Failed(c) ==
  Len(c.hist) > 0 /\ c.hist[Len(c.hist)][2] = "fail"

\* the chain ended with a stream
Succeeded(c) ==
  Len(c.hist) > 0 /\ c.hist[Len(c.hist)][2] = "ok"

\* invocation i returns in this step
Returns(i) == calls[i].pc # "idle" /\ calls'[i].pc = "idle"

\* C1: in CameraSwitcher at most one acquired stream has un-stopped tracks,
\* at every point of every interleaving of startCamera, getDevices and
\* stopCamera.
C1_AtMostOneLiveStream ==
  (comp = Switcher /\ mounted) => Cardinality(LiveStreams) <= 1

C3_SessionOrFailure ==
  [][\A i \in StartIds :
       (comp \in {Smart, Capture} /\ mounted /\ Returns(i)) =>
         IF Succeeded(lastCall')
           THEN /\ currentStream' = lastCall'.stream
                /\ srcObject' = lastCall'.stream
                /\ comp = Smart => isStreaming'
           ELSE cameraError' # NoError \/ alertMsg' # NoError]_vars

\* C4: in CameraSwitcher, when the first call failed with
\* OverconstrainedError and the call with only the deviceId constraint
\* resolves, startCamera returns with that stream live, on the requested
\* device, bound to the video element, stored as currentStream, and
\* isStreaming true, and logs no acquisition failure in that step (the
\* component being mounted).
C4_FallbackYieldsSession ==
  [][\A i \in StartIds :
       (/\ comp = Switcher /\ mounted
        /\ calls[i].pc = "gum" /\ calls[i].req = "exact_basic"
        /\ calls[i].err = "OverconstrainedError"
        /\ Returns(i) /\ Len(streams') = Len(streams) + 1)
       => /\ lastCall'.stream = Len(streams')
          /\ streams'[lastCall'.stream].live
          /\ streams'[lastCall'.stream].dev = calls[i].target
          /\ currentStream' = lastCall'.stream
          /\ srcObject' = lastCall'.stream
          /\ isStreaming'
          /\ logs' \in {logs, "playError"}]_vars

\* the fallback has produced the session
C4_Witness ==
  /\ comp = Switcher /\ mounted
  /\ lastCall.pc = "done"
  /\ lastCall.hist = <<<<"exact_hi", "fail">>, <<"exact_basic", "ok">>>>
  /\ lastCall.err = "OverconstrainedError"
  /\ currentStream = lastCall.stream /\ IsLive(currentStream)
  /\ srcObject = currentStream /\ isStreaming

\* C5: in CameraSwitcher a second getUserMedia call is issued if and only
\* if the first failed with OverconstrainedError; it asks for the same
\* device without resolution constraints; no invocation issues a third.
C5_SecondCallIffOverconstrained ==
  comp = Switcher =>
    \A c \in KnownCalls :
      /\ Issued(c) <= 2
      /\ (Issued(c) >= 1 /\ (c.pc = "done" \/ Len(c.hist) >= 1)) =>
           (Issued(c) = 2 <=>
              (c.hist[1][2] = "fail" /\ c.err = "OverconstrainedError"))
      /\ Issued(c) = 2 =>
           /\ RequestAt(c, 1) = "exact_hi" /\ RequestAt(c, 2) = "exact_basic"
           /\ c.target # NoDevice

\* one invocation has ended after a first call that failed otherwise, and
\* another has its second call pending
C5_Witness ==
  /\ comp = Switcher
  /\ lastCall.pc = "done" /\ Len(lastCall.hist) = 1
  /\ lastCall.err = "NotReadableError"
  /\ \E i \in StartIds :
       /\ calls[i].pc = "gum" /\ calls[i].req = "exact_basic"
       /\ calls[i].err = "OverconstrainedError"

\* the reason a component shows after a failed acquisition
Surfaced(c, last, cerr, amsg, log) ==
  CASE c = Smart -> cerr = ErrorMessage(Smart, last.err) /\ cerr # NoError
    [] c \in {Capture, CaptureTsx} ->
         amsg = ErrorMessage(c, last.err) /\ amsg # NoError
    [] OTHER -> log \in {"startError", "fallbackFailed"}

\* C6: an invocation of acquire issues at most 4 getUserMedia calls, and
\* when the chain is exhausted by failures it returns with the failure
\* shown (cameraError set, alert shown, or an error line logged), the
\* component being mounted.
C6_BoundedChainThenFailure ==
  [][/\ \A i \in StartIds : Issued(calls'[i]) <= 4
     /\ Issued(lastCall') <= 4
     /\ \A i \in StartIds :
          (mounted /\ Returns(i) /\ calls[i].pc = "gum"
             /\ Failed(lastCall'))
          => Surfaced(comp, lastCall', cameraError', alertMsg', logs')]_vars

\* part_001 has issued four calls, the chain failed, and the failure shows
C6_Witness ==
  /\ comp = Smart /\ mounted
  /\ lastCall.pc = "done" /\ Len(lastCall.hist) = 4 /\ Failed(lastCall)
  /\ cameraError = ErrorMessage(Smart, lastCall.err)
  /\ cameraError # NoError

\* the request that may follow a settled one in the chain of part_001
\* (probe first) and of part_002 and CameraCapture.tsx
ChainFollows(req, result, nxt) ==
  \/ req = "probe" /\ result = "ok" /\ nxt = "env"
  \/ req = "probe" /\ result = "fail" /\ nxt = "user"
  \/ req = "env" /\ result = "fail" /\ nxt = "user"
  \/ req = "user" /\ result = "fail" /\ nxt = "any"

\* C7 as claimed: a facing-mode-only acquisition (part_001, part_002)
\* issues environment facing, then user facing, then unconstrained video,
\* each only after the preceding attempt failed, and no call after the
\* first success.
C7_EnvUserAnyOnly ==
  comp \in {Smart, Capture} =>
    \A c \in KnownCalls :
      /\ Issued(c) <= 3
      /\ \A k \in 1..Issued(c) : RequestAt(c, k) = <<"env", "user", "any">>[k]
      /\ \A k \in 1..Len(c.hist) : k < Issued(c) => c.hist[k][2] = "fail"

\* C7 amended: part_002 issues environment, user, unconstrained in that
\* order, each only after the preceding attempt failed, and nothing after
\* the first success.  part_001 first issues a permission probe; after a
\* successful probe environment facing, after a failed probe user facing;
\* after a failed environment attempt user facing, then unconstrained;
\* apart from the probe no call follows a success.
C7_ChainOrder ==
  comp \in {Smart, Capture, CaptureTsx} =>
    \A c \in KnownCalls :
      /\ Issued(c) >= 1 =>
           RequestAt(c, 1) = (IF comp = Smart THEN "probe" ELSE "env")
      /\ \A k \in 1..Len(c.hist) :
           /\ k < Issued(c) =>
                ChainFollows(c.hist[k][1], c.hist[k][2], RequestAt(c, k + 1))
           /\ (c.hist[k][2] = "ok" /\ c.hist[k][1] # "probe") => k = Issued(c)
           /\ (comp = CaptureTsx) => k = Issued(c)

\* part_001 went through probe, environment, user and unconstrained
C7_Witness ==
  /\ comp = Smart
  /\ lastCall.pc = "done"
  /\ lastCall.hist = <<<<"probe", "ok">>, <<"env", "fail">>,
                       <<"user", "fail">>, <<"any", "ok">>>>

\* C8: the reason shown for a failed acquisition (part_001: cameraError,
\* part_002: the alert) tells the six error classes apart: it differs from
\* the reason any other class is mapped to.
C8_DistinctReasons ==
  (comp \in {Smart, Capture} /\ lastCall.pc = "done" /\ Failed(lastCall)
     /\ Surfaced(comp, lastCall, cameraError, alertMsg, logs))
  => \A e \in ErrorNames \ {lastCall.err} :
       ErrorMessage(comp, e) # ErrorMessage(comp, lastCall.err)

\* the postcondition of stopCamera on the session state
Released(before, after) ==
  /\ after.currentStream = 0
  /\ after.srcObject = 0
  /\ ~after.isStreaming
  /\ Len(after.streams) = Len(before.streams)
  /\ \A s \in 1..Len(before.streams) :
       after.streams[s].live =
         (before.streams[s].live /\ s # before.currentStream)

C10_TeardownStopsSession ==
  [][(Unmount /\ currentStream # 0) => ~streams'[currentStream].live]_vars

\* ---------------------------------------------------------------- C11..C20
\* the images a step rewrites, by position (the list keeps its length)
Rewritten ==
  {p \in DOMAIN capturedImages : capturedImages'[p] # capturedImages[p]}

\* the image a processImage invocation was started for is in the list:
\* the invocation carries the id and the data URL of its image
Present(c) ==
  \E p \in DOMAIN capturedImages :
    /\ capturedImages[p].id = c.imageId
    /\ capturedImages[p].dataUrl = c.dataUrl

\* C11: a recognition call that throws rewrites one image at most, the one
\* it was started for, which gets the fixed error message and leaves the
\* processing state; every other image of the list stays as it was.
C11_FailureIsolated ==
  [][\A c \in BagToSet(ocr) :
       OcrSettle(c, <<"throw">>) =>
         /\ Cardinality(Rewritten) <= 1
         /\ \A p \in Rewritten :
              /\ capturedImages[p].id = c.imageId
              /\ capturedImages'[p] =
                   [capturedImages[p] EXCEPT !.error = OcrErrorText(comp),
                                             !.isProcessing = FALSE]]_vars

\* C12: when the image of a recognition call is no longer in the list, the
\* completion of the call, with a text or a throw, leaves the list as it is.
C12_RemovedImageStaysRemoved ==
  [][\A c \in BagToSet(ocr) : \A res \in OcrResults :
       (OcrSettle(c, res) /\ ~Present(c)) =>
         capturedImages' = capturedImages]_vars

\* C13: a retry puts its image back into the processing state: the flag is
\* true and the previous error and plate are gone.
C13_RetryReentersProcessing ==
  [][\A p \in 1..MaxImages :
       Retry(p) =>
         /\ capturedImages'[p].isProcessing
         /\ capturedImages'[p].error = NoError
         /\ capturedImages'[p].licensePlate = NoPlate]_vars

\* an image is resolved: a plate is attached and no error
Resolved(img) ==
  /\ ~img.isProcessing
  /\ Truthy(img.licensePlate)
  /\ img.licensePlate # Sentinel
  /\ img.error = NoError

\* C14: the completion of a recognition call leaves every resolved image
\* as it is (the other handlers add and remove images and rewrite none).
C14_ResolvedIsTerminal ==
  [][\A c \in BagToSet(ocr) : \A res \in OcrResults :
       OcrSettle(c, res) =>
         \A p \in DOMAIN capturedImages :
           Resolved(capturedImages[p]) =>
             capturedImages'[p] = capturedImages[p]]_vars

\* C15: while the recognition call of a captured photo is in flight the
\* shutter stays enabled.
C15_CaptureStaysEnabled ==
  (comp = Switcher /\ mounted /\ isStreaming /\ cap.pc = "ocr")
    => ~isProcessing

\* the raw texts that are empty or white space only
BlankTexts == {raw \in RawTexts : \A k \in 1..Len(raw) : raw[k] = "W"}

\* C17: a recognition call that returns an empty or white-space-only text
\* leaves its image unrecognized: the sentinel as its plate, no error, not
\* processing.
C17_BlankTextIsUnrecognized ==
  [][\A c \in BagToSet(ocr) : \A res \in BlankTexts :
       OcrSettle(c, res) =>
         \A p \in DOMAIN capturedImages :
           capturedImages[p].id = c.imageId =>
             /\ capturedImages'[p].licensePlate = Sentinel
             /\ capturedImages'[p].error = NoError
             /\ ~capturedImages'[p].isProcessing]_vars

\* C18: capturePhoto while the video reports videoWidth = 0 adds nothing,
\* starts nothing and changes no state.
C18_NoCaptureOfEmptyFrame ==
  [][(CapturePhoto /\ ~metaLoaded) =>
       UNCHANGED <<capturedImages, capturedPhotos, ocr, cap, isProcessing,
                   logs>>]_vars

\* C19: no two images of capturedImages have the same id.
C19_UniqueIds ==
  \A p, q \in DOMAIN capturedImages :
    p # q => capturedImages[p].id # capturedImages[q].id

\* C20: a successful submission removes exactly one image, one that
\* carries the submitted plate, when there is such an image.
C20_SubmitRemovesOneImage ==
  [][(SubmitSettle("ok") /\
        \E p \in DOMAIN capturedImages :
          capturedImages[p].licensePlate = submission.licensePlate) =>
       Len(capturedImages') = Len(capturedImages) - 1]_vars

\* the maximal runs of equal characters of u, in order: [cls, n]
RECURSIVE Runs(_)
Runs(u) ==
  IF u = <<>> THEN <<>>
  ELSE LET n == RunLen(u, 1, u[1])
       IN <<[cls |-> u[1], n |-> n]>> \o Runs(SubSeq(u, n + 1, Len(u)))

\* u as a whole has the shape of pat: neighbouring elements of a pattern
\* have different classes, so the elements are the runs of u
FullMatch(pat, u) ==
  LET r == Runs(u)
  IN /\ Len(r) = Len(pat)
     /\ \A k \in 1..Len(pat) :
          /\ r[k].cls = pat[k].cls
          /\ r[k].n >= pat[k].lo
          /\ pat[k].hi = 0 \/ r[k].n <= pat[k].hi

\* the substrings of s that have the shape of pat: <<first, last>>
Occurs(pat, s) ==
  {ij \in (1..Len(s)) \X (1..Len(s)) :
     ij[1] <= ij[2] /\ FullMatch(pat, SubSeq(s, ij[1], ij[2]))}

\* C16: extractLicensePlate returns, for the first pattern in list order
\* that occurs anywhere in the text without its white space, the occurrence
\* that starts leftmost (the longest one there), even when a later pattern
\* occurs further left; without any occurrence it returns the stripped text
\* when that is non-empty; and the result for a text is the result for the
\* text without its white space, so texts that differ only in white space
\* give the same result.
C16_FirstPatternInListOrder ==
  extracted # NoPlate =>
    LET s == SelectSeq(text, LAMBDA ch : ch # "W")
        hit == {k \in 1..Len(Patterns) : Occurs(Patterns[k], s) # {}}
    IN /\ hit # {} =>
            LET k0 == CHOOSE k \in hit : \A j \in hit : k <= j
                occ == Occurs(Patterns[k0], s)
                first == CHOOSE ij \in occ :
                           \A o \in occ :
                             \/ ij[1] < o[1]
                             \/ ij[1] = o[1] /\ ij[2] >= o[2]
            IN extracted = SubSeq(s, first[1], first[2])
       /\ (hit = {} /\ s # <<>>) => extracted = s
       /\ extracted = extractLicensePlate(s)

\* a text with white space in which the third pattern occurs further left
\* than the first: the first pattern's occurrence is returned
C16_Witness ==
  /\ text = <<"D", "W", "K", "D", "K", "D">>
  /\ extracted = <<"K", "D", "K", "D">>

\* ================================================================ C21..C30
\* C21: in the ranked list no device stands before a device of a higher
\* rank, the ranks being 3 for a triple / multi-lens or rear / main keyword,
\* 2 for a label without a recognised keyword, 1 for ultra-wide and
\* telephoto and 0 for front-facing; devices of equal rank stand in their
\* enumeration order.
C21_RankedBySpecOrder ==
  LET Rank(d) ==
        IF LabelOf(d) \cap {"triple", "dualwide"} # {} THEN 3
        ELSE IF LabelOf(d) \cap {"ultrawide", "tele"} # {} THEN 1
        ELSE IF LabelOf(d) \cap {"rear", "main"} # {} THEN 3
        ELSE IF "front" \in LabelOf(d) THEN 0
        ELSE 2
  IN devices # {} =>
       /\ \A i, j \in DOMAIN sorted :
            i < j => Rank(sorted[i]) >= Rank(sorted[j])
       /\ \A i, j \in DOMAIN enumerated :
            (i < j /\ Rank(enumerated[i]) = Rank(enumerated[j])) =>
              \E a, b \in DOMAIN sorted :
                a < b /\ sorted[a] = enumerated[i] /\ sorted[b] = enumerated[j]

\* C22: once a device list is stored, the device selected by default is the
\* first device of the ranked list.
C22_DefaultIsFirstRanked ==
  devices # {} => selectedDeviceId = sorted[1]

\* an invocation of getDevices starts its throwaway acquisition
ProbeStarts(g) == gd[g].pc # "gum" /\ gd'[g].pc = "gum"

\* C23 as stated: the throwaway acquisition of getDevices starts only while
\* no labelled device list is known.
C23_ProbeOnlyWithoutLabels ==
  [][\A g \in GdIds : ProbeStarts(g) => devices = {}]_vars

\* C23 amended: every invocation of getDevices starts the throwaway
\* acquisition, also when a labelled device list is known; when the
\* acquisition resolves, every track of its stream is stopped before
\* enumerateDevices is called, and the stream is neither bound to the
\* surface nor stored as the session.
C23_ProbeAlwaysAndReleased ==
  [][/\ gdStarted' # gdStarted => ProbeStarts(NextGd)
     /\ \A g \in GdIds :
          (gd[g].pc = "gum" /\ gd'[g].pc = "enum") =>
            /\ gd'[g].probe = "stopped"
            /\ UNCHANGED <<streams, currentStream, srcObject>>]_vars

\* a second invocation has released its stream and is enumerating while a
\* labelled device list is already stored
C23_Witness ==
  \E g \in GdIds :
    gd[g].pc = "enum" /\ gd[g].probe = "stopped" /\ devices # {}

\* the state the answer of the engine for its file puts an image in
Outcome(img) ==
  IF engine[img.dataUrl] = <<"throw">>
    THEN [img EXCEPT !.isProcessing = FALSE, !.licensePlate = NoPlate,
                     !.error = OcrErrorText(comp)]
    ELSE [img EXCEPT !.isProcessing = FALSE,
                     !.licensePlate = PlateOf(comp, engine[img.dataUrl]),
                     !.error = NoError]

ProcessingShape(img) ==
  img.isProcessing /\ img.licensePlate = NoPlate /\ img.error = NoError
ResolvedShape(img) ==
  ~img.isProcessing /\ Truthy(img.licensePlate) /\ img.error = NoError
ErrorShape(img) ==
  ~img.isProcessing /\ img.error # NoError /\ img.licensePlate = NoPlate

\* C25: every image of capturedImages is processing (flag set, no plate, no
\* error), resolved or unrecognized (flag clear, non-empty plate, no error)
\* or in error (flag clear, error set, no plate).
C25_OneOfThreeShapes ==
  \A p \in DOMAIN capturedImages :
    \/ ProcessingShape(capturedImages[p])
    \/ ResolvedShape(capturedImages[p])
    \/ ErrorShape(capturedImages[p])

\* C26: once every startCamera invocation has returned, CameraSwitcher has
\* isStreaming set only while currentStream is a stream whose tracks are
\* not stopped.
C26_StreamingImpliesLiveStream ==
  (/\ comp = Switcher
   /\ isStreaming
   /\ \A i \in StartIds : calls[i].pc \in {"idle", "done"}) =>
    IsLive(currentStream)

\* an image with this id is in capturedImages with its processing flag set
Processing(id) ==
  \E p \in DOMAIN capturedImages :
    capturedImages[p].id = id /\ capturedImages[p].isProcessing

\* C27: an image that is processing eventually is not: its flag is cleared
\* with a plate or an error.
C27_ProcessingEnds ==
  \A id \in 1..MaxClock : Processing(id) ~> ~Processing(id)

\* C28: the license plate of a record-creation request in flight is never
\* the text of the unrecognized outcome.
C28_SentinelNeverSubmitted ==
  submission.pc = "post" => submission.licensePlate # Sentinel

\* every request received was answered with success
AllSucceeded ==
  \A c \in BagToSet(requests) : c.pc = "done" /\ c.status = 200

\* C29: when every check-in and check-out received has completed with
\* success, a spot is flagged occupied exactly if a record of that spot
\* without check-out time exists.
C29_OccupiedIffOpenRecord ==
  AllSucceeded =>
    \A spot \in Spots :
      is_occupied[spot] <=> OpenRecords(parking_records, spot) # {}

\* C30: no spot has two records without check-out time.
C30_OneOpenRecordPerSpot ==
  \A spot \in Spots : Cardinality(OpenRecords(parking_records, spot)) <= 1
====
